---- MODULE Spec2Model ----
(***************************************************************************)
(* steel: the planar clipping engine of src/main.go (commands "cut" and    *)
(* "slice", and the helper trimTriangleBelow they rest on).                *)
(*                                                                         *)
(* Numbers.  The program computes in float32.  The model computes on an    *)
(* integer grid: the float value 1.0 is Unit grid steps, a coordinate is   *)
(* an integer number of steps, and a quotient is rounded (down) to the     *)
(* grid, so that interpolation is inexact where the exact result is off    *)
(* the grid, as it is in floating point.  A division by zero gives a       *)
(* non-finite value (NonFinite), as it does in Go.  Input coordinates are   *)
(* finite: a NaN coordinate, which makes a vertex differ from itself, is   *)
(* not among the inputs.                                                   *)
(***************************************************************************)
EXTENDS Integers, Sequences, FiniteSets, TLC

\* ---------------------------------------------------------------- bounds
\* Grid steps per 1.0.
Unit == 10000
\* Longest mesh the commands read.
MaxTris == 2
\* trimTriangleBelow's inputs: cut-axis coordinates k*Unit for k in 0..MaxK
\* and Unit+d for d in -MaxOff..MaxOff; tolerances 0..MaxEps grid steps.
MaxK == 2
MaxOff == 1
MaxEps == 1

\* ------------------------------------------------------------- constants
\* sliceThreshold = 0.001 and cutThreshold = 0.0001, as their reciprocals.
sliceThresholdDen == 1000
cutThresholdDen == 10000
\* pmm: SVG units per 1.0 (v * 100).
pmmScale == 100

\* ------------------------------------------------------------- geometry
\* A division by zero in float32 yields Inf or NaN; one marker stands for both.
NonFinite == 0 - (Unit * Unit)

\* Go's float32 quotient n/d, rounded to the grid.
Quot(n, d) ==
    IF d < 0 THEN (0 - n) \div (0 - d) ELSE n \div d

\* int(v): Go's conversion truncates toward zero.
Trunc(n, d) ==
    IF n >= 0 THEN n \div d ELSE 0 - ((0 - n) \div d)

\* stl.Point is [3]float32, indexed 0..2 in the source and 1..3 here.
Coord(p, i) == p[i + 1]

\* A plane is the closure state of cut/slice: axis si, value sv, tolerance eps.
Plane(i, v, e) == [si |-> i, sv |-> v, eps |-> e]

below(pl, p) == Coord(p, pl.si) < pl.sv - pl.eps

above(pl, p) == Coord(p, pl.si) > pl.sv + pl.eps

\* slice's names for the same predicates, and its eq.
less(pl, p) == Coord(p, pl.si) < pl.sv - pl.eps
more(pl, p) == Coord(p, pl.si) > pl.sv + pl.eps
sliceEq(pl, p) == ~less(pl, p) /\ ~more(pl, p)

\* intersect (the closure of cut, identical in slice): alpha is
\* (sv - p0[si]) / (p1[si] - p0[si]) and res[i] = p0[i] + alpha*(p1[i]-p0[i]).
intersect(pl, p0, p1) ==
    LET den == Coord(p1, pl.si) - Coord(p0, pl.si)
        num == pl.sv - Coord(p0, pl.si)
    IN  IF den = 0
        THEN <<NonFinite, NonFinite, NonFinite>>
        ELSE [i \in 1..3 |-> p0[i] + Quot(num * (p1[i] - p0[i]), den)]

\* uniqVertices removes equal points which are located in adjacent positions.
RECURSIVE uniqFrom(_, _, _)
uniqFrom(v, i, res) ==
    IF i > Len(v) THEN res
    ELSE IF v[i] = res[Len(res)] THEN uniqFrom(v, i + 1, res)
    ELSE uniqFrom(v, i + 1, Append(res, v[i]))

\* Fault: no deduplication.
uniqVerticesKeepsAll(v) == v
uniqVertices(v) ==
    IF Len(v) = 0 THEN <<>> ELSE uniqFrom(v, 2, <<v[1]>>)

\* The predicates trimTriangleBelow is handed: cut passes (below, above) for
\* the lower part and (above, below) for the upper part.
trimBelow(side, pl, p) == IF side = "below" THEN below(pl, p) ELSE above(pl, p)
trimAbove(side, pl, p) == IF side = "below" THEN above(pl, p) ELSE below(pl, p)
\* Fault: eq as exact equality with the plane's value, not the band.
trimEqExact(side, pl, p) == Coord(p, pl.si) = pl.sv
trimEq(side, pl, p) == ~trimAbove(side, pl, p) /\ ~trimBelow(side, pl, p)

\* What one turn of the edge loop adds: vertices and intersect calls.
Emit(vs, cs) == [emit |-> vs, calls |-> cs, panic |-> FALSE]

\* Fault: no branch for a vertex on the border; such an edge is interpolated.
trimEdgeInterpolatesOn(side, pl, cur, next) ==
    IF ~trimAbove(side, pl, cur) /\ ~trimAbove(side, pl, next)
    THEN Emit(<<cur, next>>, <<>>)
    ELSE IF trimAbove(side, pl, cur) /\ trimAbove(side, pl, next)
    THEN Emit(<<>>, <<>>)
    ELSE IF trimAbove(side, pl, next)
    THEN Emit(<<cur, intersect(pl, cur, next)>>, <<<<cur, next>>>>)
    ELSE Emit(<<intersect(pl, cur, next), next>>, <<<<cur, next>>>>)
\* One turn of trimTriangleBelow's edge loop: the vertices appended, the
\* intersect calls made, and whether the "unreachable" panic is reached.
trimEdge(side, pl, cur, next) ==
    IF ~trimAbove(side, pl, cur) /\ ~trimAbove(side, pl, next)
    THEN Emit(<<cur, next>>, <<>>)
    ELSE IF trimAbove(side, pl, cur) /\ trimAbove(side, pl, next)
    THEN Emit(<<>>, <<>>)
    ELSE IF trimEq(side, pl, cur) /\ trimAbove(side, pl, next)
    THEN Emit(<<cur>>, <<>>)
    ELSE IF trimAbove(side, pl, cur) /\ trimEq(side, pl, next)
    THEN Emit(<<next>>, <<>>)
    ELSE IF trimBelow(side, pl, cur) /\ trimAbove(side, pl, next)
    THEN Emit(<<cur, intersect(pl, cur, next)>>, <<<<cur, next>>>>)
    ELSE IF trimAbove(side, pl, cur) /\ trimBelow(side, pl, next)
    THEN Emit(<<intersect(pl, cur, next), next>>, <<<<cur, next>>>>)
    ELSE [emit |-> <<>>, calls |-> <<>>, panic |-> TRUE]

\* The whole edge loop, i = 0, 1, 2: a panic ends it.
RECURSIVE trimWalk(_, _, _, _, _)
trimWalk(side, pl, tr, i, acc) ==
    IF i = 3 \/ acc.panic THEN acc
    ELSE LET e == trimEdge(side, pl, tr.V[i + 1], tr.V[((i + 1) % 3) + 1])
         IN  trimWalk(side, pl, tr, i + 1,
                      [emit |-> acc.emit \o e.emit,
                       calls |-> acc.calls \o e.calls,
                       panic |-> e.panic])

\* Fault: the fix-up left out.
trimFixUpNone(v) == v
\* The fix-up after uniqVertices: drop a last vertex equal to the first.
trimFixUp(v) ==
    IF Len(v) > 1 /\ v[1] = v[Len(v)] THEN SubSeq(v, 1, Len(v) - 1) ELSE v

\* Fault: four vertices split along the other diagonal.
trimFanFromV1(tr, v) ==
    IF Len(v) < 3 THEN <<>>
    ELSE IF Len(v) = 3 THEN << [N |-> tr.N, V |-> <<v[1], v[2], v[3]>>] >>
    ELSE << [N |-> tr.N, V |-> <<v[1], v[2], v[4]>>],
            [N |-> tr.N, V |-> <<v[2], v[3], v[4]>>] >>
\* The triangles built from the vertex list (lines 279-304).
trimTriangles(tr, v) ==
    IF Len(v) < 3 THEN <<>>
    ELSE IF Len(v) = 3 THEN << [N |-> tr.N, V |-> <<v[1], v[2], v[3]>>] >>
    ELSE << [N |-> tr.N, V |-> <<v[1], v[2], v[3]>>],
            [N |-> tr.N, V |-> <<v[3], v[4], v[1]>>] >>

\* trimTriangleBelow: the vertex list it holds after the fix-up (v), the
\* triangles it returns (tris), the intersect calls it made (calls) and the
\* panic it ended in ("none", "edge" at line 268, "count" at line 305).
trimTriangleBelow(side, pl, tr) ==
    LET w == trimWalk(side, pl, tr, 0, [emit |-> <<>>, calls |-> <<>>, panic |-> FALSE])
        v == trimFixUp(uniqVertices(w.emit))
    IN  IF w.panic
        THEN [v |-> <<>>, tris |-> <<>>, calls |-> w.calls, panic |-> "edge"]
        ELSE IF Len(v) > 4
        THEN [v |-> v, tris |-> <<>>, calls |-> w.calls, panic |-> "count"]
        ELSE [v |-> v, tris |-> trimTriangles(tr, v), calls |-> w.calls, panic |-> "none"]

\* ------------------------------------------------------------------ state
VARIABLES
    cmd,        \* the command run: "cut", "slice", or "trim" for a bare call
    pc,         \* where the command stands
    coordX, coordY, coordZ,   \* the --x, --y, --z flags
    verbose,    \* the --verbose flag
    events,     \* what the command has done to the outside world, in order
    t,          \* the mesh read
    si, sx, sy, \* cut axis and the two drawing axes
    sv,         \* the plane's value on the cut axis
    eps,        \* the tolerance
    idx,        \* triangles of t handled so far
    parts,      \* cut: the two output meshes
    trims,      \* cut: the calls of trimTriangleBelow made, as <<triangle, side>>
    svg,        \* slice: the lines written after the header, each with the
                \* index of the triangle it was written for
    call,       \* a bare call of trimTriangleBelow: its arguments
    ret         \* and what it returned

vars == <<cmd, pc, coordX, coordY, coordZ, verbose, events, t, si, sx, sy, sv,
          eps, idx, parts, trims, svg, call, ret>>

cmdVars == <<coordX, coordY, coordZ, verbose, events, t, si, sx, sy, sv,
             eps, idx, parts, trims, svg>>

Normals == { <<0, 0, 1>> }
Triangle(n, a, b, c) == [N |-> n, V |-> <<a, b, c>>]
TrianglesOver(P) == { Triangle(n, a, b, c) : n \in Normals, a \in P, b \in P, c \in P }

NoCall == [side |-> "none"]
NoRet == [panic |-> "pending"]

\* ------------------------------------------- trimTriangleBelow, called bare
AxisVals == { k * Unit : k \in 0..MaxK } \cup { Unit + d : d \in (0 - MaxOff)..MaxOff }
OtherVals == { 0, 2 * Unit }
TrimPoints == { <<x, y, 0>> : x \in AxisVals, y \in OtherVals }
TrimPlanes == { Plane(i, Unit, e) : i \in 0..2, e \in 0..MaxEps }

InitTrim ==
    /\ cmd = "trim"
    /\ pc = "call"
    /\ coordX = 0 /\ coordY = 0 /\ coordZ = 0
    /\ verbose = FALSE
    /\ events = <<>>
    /\ t = <<>>
    /\ si = 2 /\ sx = 0 /\ sy = 0 /\ sv = 0 /\ eps = 0
    /\ idx = 0
    /\ parts = << <<>>, <<>> >>
    /\ trims = <<>>
    /\ svg = <<>>
    /\ call \in { [pl |-> p, tr |-> x] : p \in TrimPlanes, x \in TrianglesOver(TrimPoints) }
    /\ ret = NoRet

\* trimTriangleBelow(tr, below, above, intersect): the lower part.
TrimLower ==
    /\ cmd = "trim" /\ pc = "call"
    /\ pc' = "returned"
    /\ call' = [side |-> "below", pl |-> call.pl, tr |-> call.tr]
    /\ ret' = trimTriangleBelow("below", call.pl, call.tr)
    /\ UNCHANGED <<cmd, cmdVars>>

\* trimTriangleBelow(tr, above, below, intersect): the upper part.
TrimUpper ==
    /\ cmd = "trim" /\ pc = "call"
    /\ pc' = "returned"
    /\ call' = [side |-> "above", pl |-> call.pl, tr |-> call.tr]
    /\ ret' = trimTriangleBelow("above", call.pl, call.tr)
    /\ UNCHANGED <<cmd, cmdVars>>

NextTrim == TrimLower \/ TrimUpper

SpecTrim == InitTrim /\ [][NextTrim]_vars

\* ------------------------------------------------------- the two commands
\* The meshes stl.Read may return: up to MaxTris triangles over three points.
\* Against the plane x = 1 they lie far below, a grid step below (inside the
\* tolerance band once the mesh is wide enough) and far above; against y = 1
\* below, above and below; against z = 1 below, on and below; against the
\* default plane z = 0 on, above and on.
MeshPoints == { <<0, 0, 0>>, <<Unit - 1, 2 * Unit, Unit>>, <<2 * Unit, 0, 0>> }
MeshTris == TrianglesOver(MeshPoints)
RECURSIVE SeqsUpTo(_, _)
SeqsUpTo(S, n) ==
    IF n = 0 THEN { <<>> }
    ELSE LET shorter == SeqsUpTo(S, n - 1)
         IN  shorter \cup { Append(m, x) : m \in { q \in shorter : Len(q) = n - 1 }, x \in S }
Meshes == SeqsUpTo(MeshTris, MaxTris)
\* The values a --x, --y or --z flag takes: unset (0) or 1.0.
FlagVals == { 0, Unit }

InitCommand(c) ==
    /\ cmd = c
    /\ pc = "start"
    /\ coordX \in FlagVals /\ coordY \in FlagVals /\ coordZ \in FlagVals
    /\ verbose \in (IF cmd = "slice" THEN BOOLEAN ELSE { FALSE })
    /\ events = <<>>
    /\ t = <<>>
    /\ si = 2 /\ sx = 0 /\ sy = 0 /\ sv = 0 /\ eps = 0
    /\ idx = 0
    /\ parts = << <<>>, <<>> >>
    /\ trims = <<>>
    /\ svg = <<>>
    /\ call = NoCall
    /\ ret = NoRet

\* fail(...): the message goes to stderr and the process exits.
Fail(what) ==
    /\ pc' = "failed"
    /\ events' = Append(events, what)

\* The flag loop of cut (lines 331-341) and slice (lines 111-123): the last
\* non-zero flag sets the axis and the value, cnt counts the non-zero flags.
Flags == << coordX, coordY, coordZ >>
cnt == Cardinality({ i \in 1..3 : Flags[i] # 0 })
LastSet == CHOOSE i \in 1..3 : Flags[i] # 0 /\ \A j \in (i + 1)..3 : Flags[j] = 0
PlaneAxis == IF cnt = 0 THEN 2 ELSE LastSet - 1
PlaneValue == IF cnt = 0 THEN 0 ELSE Flags[LastSet]

\* stl.BoundingBox: the least and greatest coordinate of the mesh on an axis.
MeshCoords(m, i) == { Coord(m[n].V[j], i) : n \in 1..Len(m), j \in 1..3 }
Least(S) == CHOOSE x \in S : \A y \in S : x <= y
Greatest(S) == CHOOSE x \in S : \A y \in S : x >= y
BoxMin(m, i) == IF Len(m) = 0 THEN 0 ELSE Least(MeshCoords(m, i))
BoxMax(m, i) == IF Len(m) = 0 THEN 0 ELSE Greatest(MeshCoords(m, i))

\* eps := (max[si] - min[si]) * threshold, the threshold given by its
\* reciprocal and the product rounded to the grid.
Tolerance(m, i, den) == Quot(BoxMax(m, i) - BoxMin(m, i), den)

\* ------------------------------------------------------------------- cut
CutOpenIn ==
    /\ cmd = "cut" /\ pc = "start"
    /\ \E ok \in BOOLEAN :
          IF ok THEN pc' = "output" /\ events' = Append(events, "openIn")
          ELSE Fail("fail: open input")
    /\ UNCHANGED <<cmd, coordX, coordY, coordZ, verbose, t, si, sx, sy, sv, eps,
                   idx, parts, trims, svg, call, ret>>

\* if outPath == "" { fail(...) }
CutCheckOutput ==
    /\ cmd = "cut" /\ pc = "output"
    /\ \E outPath \in { "", "out.stl" } :
          IF outPath = "" THEN Fail("fail: --output is not specified")
          ELSE pc' = "read" /\ UNCHANGED events
    /\ UNCHANGED <<cmd, coordX, coordY, coordZ, verbose, t, si, sx, sy, sv, eps,
                   idx, parts, trims, svg, call, ret>>

CutRead ==
    /\ cmd = "cut" /\ pc = "read"
    /\ \/ Fail("fail: read STL") /\ UNCHANGED t
       \/ \E m \in Meshes :
             /\ t' = m
             /\ pc' = "plane"
             /\ events' = Append(events, "read")
    /\ UNCHANGED <<cmd, coordX, coordY, coordZ, verbose, si, sx, sy, sv, eps,
                   idx, parts, trims, svg, call, ret>>

CutPlane ==
    /\ cmd = "cut" /\ pc = "plane"
    /\ si' = PlaneAxis
    /\ sv' = PlaneValue
    /\ IF cnt > 1 THEN Fail("fail: more than one coord")
       ELSE pc' = "box" /\ UNCHANGED events
    /\ UNCHANGED <<cmd, coordX, coordY, coordZ, verbose, t, sx, sy, eps,
                   idx, parts, trims, svg, call, ret>>

CutBoundingBox ==
    /\ cmd = "cut" /\ pc = "box"
    /\ eps' = Tolerance(t, si, cutThresholdDen)
    /\ events' = Append(events, "boundingBox")
    /\ pc' = IF Len(t) = 0 THEN "write0" ELSE "loop"
    /\ UNCHANGED <<cmd, coordX, coordY, coordZ, verbose, t, si, sx, sy, sv,
                   idx, parts, trims, svg, call, ret>>

\* Fault: every triangle is clipped, none is put whole into a part.
cutTriangleClipsAlways(pl, tr) ==
    LET lower == trimTriangleBelow("below", pl, tr)
        upper == trimTriangleBelow("above", pl, tr)
    IN  [lo |-> lower.tris, hi |-> upper.tris, trimmed |-> << "below", "above" >>,
         panic |-> lower.panic # "none" \/ upper.panic # "none"]
\* The tests of lines 372 and 376: no vertex is above, no vertex is below.
NoneAbove(pl, tr) == \A j \in 1..3 : ~above(pl, tr.V[j])
NoneBelow(pl, tr) == \A j \in 1..3 : ~below(pl, tr.V[j])
\* One turn of the partition loop (lines 363-390): what the triangle adds to
\* the lower part (lo) and to the upper part (hi), the sides trimmed, and a
\* panic of trimTriangleBelow, if any.
cutTriangle(pl, tr) ==
    LET inLower == NoneAbove(pl, tr)
        inUpper == NoneBelow(pl, tr)
        lower == trimTriangleBelow("below", pl, tr)
        upper == trimTriangleBelow("above", pl, tr)
    IN  IF inLower \/ inUpper
        THEN [lo |-> IF inLower THEN << tr >> ELSE << >>,
              hi |-> IF inUpper THEN << tr >> ELSE << >>,
              trimmed |-> << >>,
              panic |-> FALSE]
        ELSE IF lower.panic # "none"
        THEN [lo |-> << >>, hi |-> << >>, trimmed |-> << "below" >>, panic |-> TRUE]
        ELSE [lo |-> lower.tris,
              hi |-> upper.tris,
              trimmed |-> << "below", "above" >>,
              panic |-> upper.panic # "none"]

CutTriangle ==
    /\ cmd = "cut" /\ pc = "loop" /\ idx < Len(t)
    /\ LET r == cutTriangle(Plane(si, sv, eps), t[idx + 1])
       IN  /\ parts' = << parts[1] \o r.lo, parts[2] \o r.hi >>
           /\ trims' = trims \o [ n \in 1..Len(r.trimmed) |-> << idx + 1, r.trimmed[n] >> ]
           /\ pc' = IF r.panic THEN "panicked"
                    ELSE IF idx + 1 = Len(t) THEN "write0" ELSE "loop"
    /\ idx' = idx + 1
    /\ UNCHANGED <<cmd, coordX, coordY, coordZ, verbose, events, t, si, sx, sy,
                   sv, eps, svg, call, ret>>

\* One turn of the save loop (lines 393-406), for part i: openOut, then
\* stl.WriteASCII and Close, each of which may fail.
CutWrite(i) ==
    /\ cmd = "cut" /\ pc = (IF i = 0 THEN "write0" ELSE "write1")
    /\ \E outcome \in { "ok", "open fails", "write fails" } :
          IF outcome = "ok"
          THEN /\ pc' = IF i = 0 THEN "write1" ELSE "done"
               /\ events' = events \o << "openOut", "write" >>
          ELSE IF outcome = "open fails"
          THEN Fail("fail: open output")
          ELSE /\ pc' = "failed"
               /\ events' = events \o << "openOut", "fail: save output" >>
    /\ UNCHANGED <<cmd, coordX, coordY, coordZ, verbose, t, si, sx, sy, sv, eps,
                   idx, parts, trims, svg, call, ret>>

CutNext ==
    \/ CutOpenIn
    \/ CutCheckOutput
    \/ CutRead
    \/ CutPlane
    \/ CutBoundingBox
    \/ CutTriangle
    \/ CutWrite(0)
    \/ CutWrite(1)

InitCut == InitCommand("cut")
SpecCut == InitCut /\ [][CutNext]_vars

\* ----------------------------------------------------------------- slice
SliceOpenIn ==
    /\ cmd = "slice" /\ pc = "start"
    /\ \E ok \in BOOLEAN :
          IF ok THEN pc' = "output" /\ events' = Append(events, "openIn")
          ELSE Fail("fail: open input")
    /\ UNCHANGED <<cmd, coordX, coordY, coordZ, verbose, t, si, sx, sy, sv, eps,
                   idx, parts, trims, svg, call, ret>>

\* w, err := openOut(outPath): stdout, or the file created and truncated.
SliceOpenOut ==
    /\ cmd = "slice" /\ pc = "output"
    /\ \E ok \in BOOLEAN :
          IF ok THEN pc' = "read" /\ events' = Append(events, "openOut")
          ELSE Fail("fail: open output")
    /\ UNCHANGED <<cmd, coordX, coordY, coordZ, verbose, t, si, sx, sy, sv, eps,
                   idx, parts, trims, svg, call, ret>>

SliceRead ==
    /\ cmd = "slice" /\ pc = "read"
    /\ \/ Fail("fail: read STL") /\ UNCHANGED t
       \/ \E m \in Meshes :
             /\ t' = m
             /\ pc' = "plane"
             /\ events' = Append(events, "read")
    /\ UNCHANGED <<cmd, coordX, coordY, coordZ, verbose, si, sx, sy, sv, eps,
                   idx, parts, trims, svg, call, ret>>

\* si, sx, sy = i, (i+1)%3, (i+2)%3 for a flag that is set; 2, 0, 0 otherwise.
SlicePlane ==
    /\ cmd = "slice" /\ pc = "plane"
    /\ si' = PlaneAxis
    /\ sx' = IF cnt = 0 THEN 0 ELSE (PlaneAxis + 1) % 3
    /\ sy' = IF cnt = 0 THEN 0 ELSE (PlaneAxis + 2) % 3
    /\ sv' = PlaneValue
    /\ IF cnt > 1 THEN Fail("fail: more than one coord")
       ELSE pc' = "box" /\ UNCHANGED events
    /\ UNCHANGED <<cmd, coordX, coordY, coordZ, verbose, t, eps,
                   idx, parts, trims, svg, call, ret>>

\* The bounding box, eps and the SVG header (lines 128-153).
SliceBoundingBox ==
    /\ cmd = "slice" /\ pc = "box"
    /\ eps' = Tolerance(t, si, sliceThresholdDen)
    /\ events' = events \o << "boundingBox", "header" >>
    /\ pc' = IF Len(t) = 0 THEN "footer" ELSE "loop"
    /\ UNCHANGED <<cmd, coordX, coordY, coordZ, verbose, t, si, sx, sy, sv,
                   idx, parts, trims, svg, call, ret>>

\* pmm, xx, yy and pxy: a point in SVG units, relative to the box's corner.
pmm(v) == IF v = NonFinite THEN NonFinite ELSE Trunc(v * pmmScale, Unit)
xx(v, m, ax) == IF v = NonFinite THEN NonFinite ELSE pmm(v - BoxMin(m, ax))
pxy(p, m, ax, ay) == << xx(Coord(p, ax), m, ax), xx(Coord(p, ay), m, ay) >>

\* A line of the SVG body: a comment, "<path d="M L L L"/>" (the outline of
\* a triangle) or "<path d='M L' />" (a line segment).
Line(k, ps) == [kind |-> k, pts |-> ps]

\* The edge loop of slice (lines 183-201): the lines it writes.
RECURSIVE sliceWalk(_, _, _, _)
sliceWalk(pl, tr, i, lines) ==
    IF i = 3 THEN lines
    ELSE LET vi == tr.V[i + 1]
             vj == tr.V[((i + 1) % 3) + 1]
             vk == tr.V[((i + 2) % 3) + 1]
         IN  IF sliceEq(pl, vi) /\ sliceEq(pl, vj)
             THEN Append(lines, Line("segment", << vi, vj >>))
             ELSE IF (less(pl, vi) /\ less(pl, vj)) \/ (more(pl, vi) /\ more(pl, vj))
             THEN sliceWalk(pl, tr, i + 1,
                      Append(lines, Line("segment",
                          << intersect(pl, vi, vk), intersect(pl, vj, vk) >>)))
             ELSE sliceWalk(pl, tr, i + 1, lines)

\* Fault: no "continue" after the outline of a triangle in the plane.
sliceTriangleNoContinue(pl, vb, tr) ==
    LET drawn == sliceWalk(pl, tr, 0, << >>)
    IN  IF \A j \in 1..3 : sliceEq(pl, tr.V[j])
        THEN << Line("outline", << tr.V[1], tr.V[2], tr.V[3], tr.V[1] >>) >> \o drawn
        ELSE drawn
\* One turn of the triangle loop (lines 159-210): the lines written for tr,
\* points not yet projected.
sliceTriangle(pl, vb, tr) ==
    IF \A j \in 1..3 : less(pl, tr.V[j])
    THEN IF vb THEN << Line("comment: below", << >>) >> ELSE << >>
    ELSE IF \A j \in 1..3 : more(pl, tr.V[j])
    THEN IF vb THEN << Line("comment: above", << >>) >> ELSE << >>
    ELSE IF \A j \in 1..3 : sliceEq(pl, tr.V[j])
    THEN << Line("outline", << tr.V[1], tr.V[2], tr.V[3], tr.V[1] >>) >>
    ELSE LET drawn == sliceWalk(pl, tr, 0, << >>)
         IN  IF Len(drawn) > 0 THEN drawn
             ELSE IF vb THEN << Line("comment: dot", << >>) >> ELSE << >>

\* The lines as written: every point through pxy, and (for the record) the
\* index of the triangle the line was written for.
Written(lines, n, m, ax, ay) ==
    [ q \in 1..Len(lines) |->
        [src |-> n,
         kind |-> lines[q].kind,
         pts |-> [ r \in 1..Len(lines[q].pts) |-> pxy(lines[q].pts[r], m, ax, ay) ]] ]

SliceTriangle ==
    /\ cmd = "slice" /\ pc = "loop" /\ idx < Len(t)
    /\ svg' = svg \o Written(sliceTriangle(Plane(si, sv, eps), verbose, t[idx + 1]),
                             idx + 1, t, sx, sy)
    /\ idx' = idx + 1
    /\ pc' = IF idx + 1 = Len(t) THEN "footer" ELSE "loop"
    /\ UNCHANGED <<cmd, coordX, coordY, coordZ, verbose, events, t, si, sx, sy,
                   sv, eps, parts, trims, call, ret>>

SliceFooter ==
    /\ cmd = "slice" /\ pc = "footer"
    /\ events' = Append(events, "footer")
    /\ pc' = "done"
    /\ UNCHANGED <<cmd, coordX, coordY, coordZ, verbose, t, si, sx, sy, sv, eps,
                   idx, parts, trims, svg, call, ret>>

SliceNext ==
    \/ SliceOpenIn
    \/ SliceOpenOut
    \/ SliceRead
    \/ SlicePlane
    \/ SliceBoundingBox
    \/ SliceTriangle
    \/ SliceFooter

InitSlice == InitCommand("slice")
SpecSlice == InitSlice /\ [][SliceNext]_vars

\* ------------------------------------------------ trimTriangleBelow: claims
Returned == cmd = "trim" /\ pc = "returned"

\* BELOW / ON / ABOVE of a vertex of the call.
IsBelow(p) == below(call.pl, p)
IsAbove(p) == above(call.pl, p)
IsOn(p) == ~IsBelow(p) /\ ~IsAbove(p)
CallV(i) == call.tr.V[i]
AxisOf(i) == Coord(CallV(i), call.pl.si)
Distinct3 == CallV(1) # CallV(2) /\ CallV(2) # CallV(3) /\ CallV(3) # CallV(1)
VSet(tri) == { tri.V[1], tri.V[2], tri.V[3] }
Range(s) == { s[i] : i \in 1..Len(s) }

\* The triangle (0,0,0),(2,0,0),(0,2,0) cut by the plane x = 1, lower part kept.
C2Scenario ==
    /\ Returned
    /\ call.side = "below"
    /\ call.pl.si = 0 /\ call.pl.sv = Unit
    /\ call.tr.V = << <<0, 0, 0>>, <<2 * Unit, 0, 0>>, <<0, 2 * Unit, 0>> >>

\* C2 as stated: the two triangles are (0,0,0),(1,0,0),(0,2,0) and
\* (1,0,0),(1,1,0),(0,2,0) (read up to the order of vertices and triangles).
C2_AsStated ==
    C2Scenario =>
        /\ Len(ret.tris) = 2
        /\ { VSet(ret.tris[1]), VSet(ret.tris[2]) } =
              { { <<0, 0, 0>>, <<Unit, 0, 0>>, <<0, 2 * Unit, 0>> },
                { <<Unit, 0, 0>>, <<Unit, Unit, 0>>, <<0, 2 * Unit, 0>> } }

\* C2, amended: clipping (0,0,0),(2,0,0),(0,2,0) against x = 1, lower part
\* kept, yields exactly two triangles, split along the diagonal from the first
\* vertex: (0,0,0),(1,0,0),(1,1,0) and (1,1,0),(0,2,0),(0,0,0), both with the
\* normal of the input.
C2_FanSplit ==
    C2Scenario =>
        ret.tris = << [N |-> call.tr.N,
                       V |-> << <<0, 0, 0>>, <<Unit, 0, 0>>, <<Unit, Unit, 0>> >>],
                      [N |-> call.tr.N,
                       V |-> << <<Unit, Unit, 0>>, <<0, 2 * Unit, 0>>, <<0, 0, 0>> >>] >>

C2_Witness == C2Scenario /\ Len(ret.v) = 4

\* The plane's value lies strictly beyond all three vertices on the cut axis.
PlaneAboveAll == \A i \in 1..3 : call.pl.sv > AxisOf(i)
PlaneBelowAll == \A i \in 1..3 : call.pl.sv < AxisOf(i)
\* The side the triangle lies on is the side kept.
KeepsOwnSide ==
    \/ PlaneAboveAll /\ call.side = "below"
    \/ PlaneBelowAll /\ call.side = "above"
KeepsOtherSide ==
    \/ PlaneAboveAll /\ call.side = "above"
    \/ PlaneBelowAll /\ call.side = "below"
AllOn == \A i \in 1..3 : IsOn(CallV(i))

OneOnOthersBelow(i) ==
    /\ IsOn(CallV(i))
    /\ \A j \in (1..3) \ {i} : IsBelow(CallV(j))
OneOnOthersAbove(i) ==
    /\ IsOn(CallV(i))
    /\ \A j \in (1..3) \ {i} : IsAbove(CallV(j))
OneOn(i) == OneOnOthersBelow(i) \/ OneOnOthersAbove(i)
KeepsTheOthers(i) ==
    \/ OneOnOthersBelow(i) /\ call.side = "below"
    \/ OneOnOthersAbove(i) /\ call.side = "above"
OthersDiffer(i) == \A j, k \in (1..3) \ {i} : j # k => CallV(j) # CallV(k)

\* C4 as stated: one vertex ON, the other two strictly on one side: the ON
\* vertex is a vertex of an output triangle, whichever half-space is kept.
C4_AsStated ==
    Returned =>
        \A i \in 1..3 : OneOn(i) =>
            \E n \in 1..Len(ret.tris) : CallV(i) \in VSet(ret.tris[n])

\* C4, amended: one vertex ON, the other two strictly on one side: the vertex
\* list the clip holds contains the ON vertex unmodified for either kept
\* half-space, but only the clip keeping the half-space of the other two
\* vertices returns a triangle with it (the input triangle itself, when those
\* two vertices differ); the other clip holds the ON vertex alone and returns
\* no triangle.
C4_OnVertexKept ==
    Returned =>
        \A i \in 1..3 : OneOn(i) =>
            /\ CallV(i) \in Range(ret.v)
            /\ KeepsTheOthers(i) /\ OthersDiffer(i) => ret.tris = << call.tr >>
            /\ ~KeepsTheOthers(i) => ret.v = << CallV(i) >> /\ ret.tris = << >>

C4_Witness ==
    /\ Returned
    /\ \E i \in 1..3 :
          /\ OneOn(i) /\ ~KeepsTheOthers(i)
          /\ AxisOf(i) # call.pl.sv
          /\ ret.v = << CallV(i) >>

\* C8 as stated: the vertex list after deduplication and the fix-up has
\* length 0, 3 or 4.
C8_AsStated ==
    Returned => Len(ret.v) \in {0, 3, 4}

\* C8, amended: the vertex list after deduplication and the fix-up has
\* length 0, 1, 2, 3 or 4 (never 5 or 6), and a list of fewer than 3 vertices
\* gives no triangle.
C8_AtMostFour ==
    Returned =>
        /\ Len(ret.v) \in 0..4
        /\ Len(ret.v) < 3 => ret.tris = << >>

C8_Witness ==
    /\ Returned /\ Distinct3
    /\ Len(ret.v) = 4
    /\ Len(ret.calls) = 2

CutPlaneNow == Plane(si, sv, eps)
HasAbove(tr) == \E j \in 1..3 : above(CutPlaneNow, tr.V[j])
HasBelow(tr) == \E j \in 1..3 : below(CutPlaneNow, tr.V[j])

\* What a triangle contributes to the lower and to the upper mesh, as C1 has it.
LowerShare(tr) ==
    IF ~HasAbove(tr) THEN << tr >>
    ELSE IF ~HasBelow(tr) THEN << >>
    ELSE trimTriangleBelow("below", CutPlaneNow, tr).tris
UpperShare(tr) ==
    IF ~HasBelow(tr) THEN << tr >>
    ELSE IF ~HasAbove(tr) THEN << >>
    ELSE trimTriangleBelow("above", CutPlaneNow, tr).tris
TrimShare(n) ==
    IF HasAbove(t[n]) /\ HasBelow(t[n]) THEN << <<n, "below">>, <<n, "above">> >> ELSE << >>
RECURSIVE ConcatLower(_)
ConcatLower(n) ==
    IF n = 0 THEN << >> ELSE ConcatLower(n - 1) \o LowerShare(t[n])
RECURSIVE ConcatUpper(_)
ConcatUpper(n) ==
    IF n = 0 THEN << >> ELSE ConcatUpper(n - 1) \o UpperShare(t[n])
RECURSIVE ConcatTrims(_)
ConcatTrims(n) ==
    IF n = 0 THEN << >> ELSE ConcatTrims(n - 1) \o TrimShare(n)

\* C1: after every turn of cut's partition loop the lower mesh is the
\* concatenation, in input order, of the shares of the triangles handled (the
\* triangle itself if no vertex is ABOVE, nothing if none is BELOW, its clip
\* otherwise), likewise the upper mesh, and trimTriangleBelow has been called
\* only for the triangles with a vertex strictly BELOW and one strictly ABOVE.
C1_Partition ==
    (cmd = "cut" /\ pc \in { "loop", "write0" }) =>
        /\ parts[1] = ConcatLower(idx)
        /\ parts[2] = ConcatUpper(idx)
        /\ trims = ConcatTrims(idx)

\* The loop is over: one triangle went whole into both meshes, the other was
\* clipped into both.
C1_Witness ==
    /\ cmd = "cut" /\ pc = "write0" /\ Len(t) = 2 /\ idx = 2
    /\ \E n \in 1..2 : ~HasAbove(t[n]) /\ ~HasBelow(t[n])
    /\ trims = << <<2, "below">>, <<2, "above">> >>
    /\ Len(parts[1]) = 2
    /\ Len(parts[2]) = 2

InEvents(e) == \E n \in 1..Len(events) : events[n] = e
PlaneError == pc = "failed" /\ InEvents("fail: more than one coord")

\* C5: with more than one of --x, --y, --z set, cut fails with the
\* invalid-plane error before the mesh is read, before any geometry work and
\* before an output file is opened.
C5_AsStated ==
    (cmd = "cut" /\ PlaneError) =>
        /\ ~InEvents("read")
        /\ ~InEvents("boundingBox")
        /\ ~InEvents("openOut")

\* ---------------------------------------------------------- slice: claims
SlicePlaneNow == Plane(si, sv, eps)
\* Triangle n of the mesh has been through the loop.
Sliced(n) == cmd = "slice" /\ pc \in { "loop", "footer", "done" } /\ n \in 1..idx
Drawable(line) == line.kind \in { "segment", "outline" }
\* The paths written for triangle n.
PathsOf(n) == { q \in 1..Len(svg) : svg[q].src = n /\ Drawable(svg[q]) }
SegmentsOf(n) == { q \in 1..Len(svg) : svg[q].src = n /\ svg[q].kind = "segment" }
NumBelow(tr) == Cardinality({ j \in 1..3 : less(SlicePlaneNow, tr.V[j]) })
NumAbove(tr) == Cardinality({ j \in 1..3 : more(SlicePlaneNow, tr.V[j]) })
NumOn(tr) == Cardinality({ j \in 1..3 : sliceEq(SlicePlaneNow, tr.V[j]) })

\* C6: a triangle with one vertex strictly BELOW and another strictly ABOVE
\* gets a line segment in the drawing, whatever its third vertex is.
C6_AsStated ==
    \A n \in 1..Len(t) :
        (Sliced(n) /\ NumBelow(t[n]) >= 1 /\ NumAbove(t[n]) >= 1) =>
            SegmentsOf(n) # { }

\* C7: a triangle with exactly one vertex ON and the other two both strictly
\* BELOW or both strictly ABOVE never gets a path in the drawing.
C7_AsStated ==
    \A n \in 1..Len(t) :
        (Sliced(n) /\ NumOn(t[n]) = 1 /\ (NumBelow(t[n]) = 2 \/ NumAbove(t[n]) = 2)) =>
            PathsOf(n) = { }

\* C10: every triangle gets at most one path (an outline or a segment) in the
\* drawing, and the lines of the drawing are in the order of the triangles
\* they were written for.
C10_OnePathInOrder ==
    cmd = "slice" =>
        /\ \A n \in 1..Len(t) : Cardinality(PathsOf(n)) <= 1
        /\ \A q \in 1..Len(svg) : svg[q].src \in 1..idx
        /\ \A q, r \in 1..Len(svg) : q < r => svg[q].src <= svg[r].src

\* Two triangles, each with its path: a segment found by the same-side edge
\* case (points interpolated) after the outline of a triangle in the plane.
C10_Witness ==
    /\ cmd = "slice" /\ pc = "done" /\ Len(t) = 2
    /\ Len(svg) = 2
    /\ svg[1].src = 1 /\ svg[1].kind = "outline"
    /\ svg[2].src = 2 /\ svg[2].kind = "segment"
    /\ NumBelow(t[2]) + NumAbove(t[2]) = 3

====
